---- MODULE Spec2Model ----
(***************************************************************************)
(* Model of hirust-resp (src/src/lib.rs): the response envelope            *)
(* Response<T>, the ErrorCode catalogue entry, the Error carrier and their *)
(* conversions to an HTTP response.                                        *)
(*                                                                         *)
(* Text is a sequence of characters (one-character strings).  An i64 is a  *)
(* tuple of four 16-bit limbs, most significant first, in two's            *)
(* complement; an i32 is an integer in -2^31 .. 2^31-1; a u32 is a pair of *)
(* 16-bit limbs.  Option<T> is <<>> for None and <<v>> for Some(v).        *)
(***************************************************************************)
EXTENDS Integers, Sequences, FiniteSets, TLC

VARIABLES holds, calls, payload, ec, tip, err, env, resp, ret

vars == <<holds, calls, payload, ec, tip, err, env, resp, ret>>

(***************************************************************************)
(* Bounds of the explored inputs.                                          *)
(***************************************************************************)
MaxTemplateLen == 4
MaxTipsLen == 2

Limb == 65536
HalfLimb == 32768

(***************************************************************************)
(* Integers: i64 (ErrorCode.code), i32 (Response.code), u32 (Error.line).  *)
(***************************************************************************)
I64Zero == <<0, 0, 0, 0>>

IsNegI64(x) == x[1] >= HalfLimb

\* Two's complement negation of four limbs: invert, then add one.
NegI64(x) ==
  LET i4 == (Limb - 1) - x[4]
      i3 == (Limb - 1) - x[3]
      i2 == (Limb - 1) - x[2]
      i1 == (Limb - 1) - x[1]
      s4 == i4 + 1
      s3 == i3 + (s4 \div Limb)
      s2 == i2 + (s3 \div Limb)
      s1 == i1 + (s2 \div Limb)
  IN  <<s1 % Limb, s2 % Limb, s3 % Limb, s4 % Limb>>

\* Unsigned division of four limbs by ten: [q |-> quotient, r |-> remainder].
DivMod10(x) ==
  LET c1 == x[1]
      c2 == (c1 % 10) * Limb + x[2]
      c3 == (c2 % 10) * Limb + x[3]
      c4 == (c3 % 10) * Limb + x[4]
  IN  [q |-> <<c1 \div 10, c2 \div 10, c3 \div 10, c4 \div 10>>, r |-> c4 % 10]

DigitChar(d) == <<"0", "1", "2", "3", "4", "5", "6", "7", "8", "9">>[d + 1]

RECURSIVE U64Digits(_)
U64Digits(x) ==
  IF x = I64Zero THEN <<>>
  ELSE U64Digits(DivMod10(x).q) \o <<DigitChar(DivMod10(x).r)>>

U64ToDecimal(x) == IF x = I64Zero THEN <<"0">> ELSE U64Digits(x)

\* Display of an i64: "{}" in format!/write!.
I64ToDecimal(x) ==
  IF IsNegI64(x) THEN <<"-">> \o U64ToDecimal(NegI64(x)) ELSE U64ToDecimal(x)

\* Sign extension i32 -> i64 (the numeric value of an i32 as an i64).
I32ToI64(n) ==
  IF n >= 0 THEN <<0, 0, n \div Limb, n % Limb>>
  ELSE <<Limb - 1, Limb - 1, (n \div Limb) + Limb, n % Limb>>

I32ToDecimal(n) == I64ToDecimal(I32ToI64(n))

U32ToDecimal(l) == U64ToDecimal(<<0, 0, l[1], l[2]>>)

\* `as i32` keeps the low 32 bits and reads them in two's complement: every
\* code that does not fit an i32 wraps around.
AsI32(x) ==
  IF x[3] >= HalfLimb THEN (x[3] - Limb) * Limb + x[4] ELSE x[3] * Limb + x[4]

(***************************************************************************)
(* Text.                                                                   *)
(***************************************************************************)
Placeholder == <<"%", "s">>

MatchesAt(s, pat, i) ==
  /\ i + Len(pat) - 1 <= Len(s)
  /\ SubSeq(s, i, i + Len(pat) - 1) = pat

\* str::match_indices: the starts of the non-overlapping matches of pat in s,
\* left to right, the search resuming after each match.
RECURSIVE MatchIndices(_, _, _)
MatchIndices(s, pat, i) ==
  IF i + Len(pat) - 1 > Len(s) THEN <<>>
  ELSE IF MatchesAt(s, pat, i) THEN <<i>> \o MatchIndices(s, pat, i + Len(pat))
  ELSE MatchIndices(s, pat, i + 1)

\* The loop of str::replace: copy s[last_end .. start), push `to`, move
\* last_end past the match; after the last match copy the rest.
RECURSIVE ReplaceLoop(_, _, _, _, _)
ReplaceLoop(s, ms, plen, to, last_end) ==
  IF ms = <<>> THEN SubSeq(s, last_end, Len(s))
  ELSE SubSeq(s, last_end, Head(ms) - 1) \o to
         \o ReplaceLoop(s, Tail(ms), plen, to, Head(ms) + plen)

\* str::replacen(from, to, 1): only the first match is replaced.
ReplaceFirstOnly(s, from, to) ==
  LET ms == MatchIndices(s, from, 1)
  IN  ReplaceLoop(s, IF ms = <<>> THEN <<>> ELSE <<Head(ms)>>, Len(from), to, 1)

\* str::replace(from, to).
Replace(s, from, to) == ReplaceLoop(s, MatchIndices(s, from, 1), Len(from), to, 1)

\* <String as FromStr>::from_str never fails and copies its input, so
\* `.parse().unwrap()` on text yields the same text.
ParseString(s) == s

(***************************************************************************)
(* serde_json::to_string of a Response<T> (derive(Serialize)).             *)
(***************************************************************************)
Quote == "\""
Backslash == "\\"

\* serde_json's string escaping, on the characters of the explored texts.
EscapeChar(c) ==
  IF c = Quote THEN <<Backslash, Quote>>
  ELSE IF c = Backslash THEN <<Backslash, Backslash>>
  ELSE <<c>>

RECURSIVE EscapeStr(_)
EscapeStr(s) == IF s = <<>> THEN <<>> ELSE EscapeChar(Head(s)) \o EscapeStr(Tail(s))

JsonString(s) == <<Quote>> \o EscapeStr(s) \o <<Quote>>

JsonNull == <<"n", "u", "l", "l">>

\* Option<T>: None is written as null, Some(v) as v (T = String here).
JsonOption(data) == IF data = <<>> THEN JsonNull ELSE JsonString(data[1])

\* Option<T> under #[serde(skip_serializing_if = "Option::is_none")].
SerializeFieldsSkipNone(r) ==
  << <<(<<"c", "o", "d", "e">>), I32ToDecimal(r.code)>> >>
    \o (IF r.data = <<>> THEN <<>>
        ELSE << <<(<<"d", "a", "t", "a">>), JsonOption(r.data)>> >>)
    \o << <<(<<"m", "s", "g">>), JsonString(r.msg)>> >>

\* derive(Serialize): the fields in declaration order, each with its name.
SerializeFields(r) ==
  << <<(<<"c", "o", "d", "e">>), I32ToDecimal(r.code)>>,
     <<(<<"d", "a", "t", "a">>), JsonOption(r.data)>>,
     <<(<<"m", "s", "g">>), JsonString(r.msg)>> >>

RECURSIVE WriteMembers(_, _)
WriteMembers(fs, first) ==
  IF fs = <<>> THEN <<>>
  ELSE (IF first THEN <<>> ELSE <<",">>) \o JsonString(Head(fs)[1]) \o <<":">>
         \o Head(fs)[2] \o WriteMembers(Tail(fs), FALSE)

\* serde_json's compact formatter for a struct.
ToJson(r) == <<"{">> \o WriteMembers(SerializeFields(r), TRUE) \o <<"}">>

(***************************************************************************)
(* HTTP responses: status, Content-Type header and body.                   *)
(***************************************************************************)
StatusOK == 200
StatusBadRequest == 400
StatusInternalServerError == 500

ContentTypeJson == "application/json"
ContentTypeHtml == "text/html; charset=utf-8"
ContentTypePlain == "text/plain; charset=utf-8"

HttpResponse(status, ctype, body) == [status |-> status, ctype |-> ctype, body |-> body]

(***************************************************************************)
(* Response<T> and its helpers.                                            *)
(***************************************************************************)
SuccessMsg == <<"U+6210", "U+529F">>
FailureMsg == <<"U+5931", "U+8D25">>
UnauthorizedMsg == <<"U+65E0", "U+6743", "U+9650", "U+8BBF", "U+95EE">>

\* derive(Default): code 0, data None, msg empty.
Response_default == [code |-> 0, data |-> <<>>, msg |-> <<>>]

success_CodeDefault(d) == [Response_default EXCEPT !.data = d, !.msg = SuccessMsg]

success(d) == [code |-> 200, data |-> d, msg |-> SuccessMsg]

error_Code200(d) == [code |-> 200, data |-> d, msg |-> FailureMsg]

error(d) == [Response_default EXCEPT !.data = d, !.msg = FailureMsg]

unauthorized_Response == [Response_default EXCEPT !.data = <<>>, !.msg = UnauthorizedMsg]

\* Responder::respond_to: HttpResponse::Ok(), JSON content type, JSON body.
respond_to(r) == HttpResponse(StatusOK, ContentTypeJson, ToJson(r))

body_json(r) == ToJson(r)

Response_Display(r) == ToJson(r)

\* The match on the error kind that the source leaves commented out.
Response_status_code_ByCode(r) ==
  IF r.code = 200 THEN StatusOK ELSE StatusBadRequest

Response_status_code(r) == StatusOK

Response_error_response(r) ==
  HttpResponse(Response_status_code(r), ContentTypeJson, Response_Display(r))

success_respond_to(d) == respond_to(success(d))

error_respond_to(d) == respond_to(error(d))

unauthorized == respond_to(unauthorized_Response)

(***************************************************************************)
(* ErrorCode.                                                              *)
(***************************************************************************)
ErrorCode_new(code, message) == [code |-> code, message |-> message]

ErrorCode_code(e) == e.code

ErrorCode_message(e) == e.message

ErrorCode_code_string(e) == <<I64ToDecimal(e.code)>>

ErrorCode_tips(e, t) == ParseString(Replace(ErrorCode_message(e), Placeholder, t))

\* The envelope built by the free function throw, and its response.
throw_Response_Substituted(e) ==
  [code |-> AsI32(ErrorCode_code(e)), data |-> <<>>,
   msg |-> ParseString(Replace(ErrorCode_message(e), Placeholder, <<>>))]

throw_Response(e) ==
  [code |-> AsI32(ErrorCode_code(e)), data |-> <<>>,
   msg |-> ParseString(ErrorCode_message(e))]

throw(e) == respond_to(throw_Response(e))

\* The envelope built by the free function throw_tips, and its response.
throw_tips_Response_Raw(e, t) ==
  [code |-> AsI32(ErrorCode_code(e)), data |-> <<>>,
   msg |-> ParseString(ErrorCode_message(e))]

throw_tips_Response(e, t) ==
  [code |-> AsI32(ErrorCode_code(e)), data |-> <<>>,
   msg |-> ParseString(Replace(ErrorCode_message(e), Placeholder, t))]

throw_tips(e, t) == respond_to(throw_tips_Response(e, t))

\* The methods ErrorCode::throw_tips and ErrorCode::throw.
ErrorCode_throw_tips_Response(e, t) ==
  [code |-> AsI32(ErrorCode_code(e)), data |-> <<>>,
   msg |-> ParseString(Replace(ErrorCode_message(e), Placeholder, t))]

ErrorCode_throw_tips(e, t) == respond_to(ErrorCode_throw_tips_Response(e, t))

ErrorCode_throw_Response(e) ==
  [code |-> AsI32(ErrorCode_code(e)), data |-> <<>>,
   msg |-> ParseString(ErrorCode_message(e))]

ErrorCode_throw(e) == respond_to(ErrorCode_throw_Response(e))

\* Display: "({}, {})".
ErrorCode_Display(e) ==
  <<"(">> \o I64ToDecimal(e.code) \o <<",", " ">> \o e.message \o <<")">>

ErrorCode_status_code_Ok(e) == StatusOK

ErrorCode_status_code(e) == StatusBadRequest

ErrorCode_error_response(e) ==
  HttpResponse(ErrorCode_status_code(e), ContentTypeHtml, ErrorCode_Display(e))

(***************************************************************************)
(* Error, the carrier of an unexpected failure.                            *)
(***************************************************************************)
Error_new(file, line, message) == [file |-> file, line |-> line, message |-> message]

Error_Display_NoSpace(e) ==
  e.file \o <<":">> \o U32ToDecimal(e.line) \o e.message

\* #[display("{file}:{line} {message}")]
Error_Display(e) ==
  e.file \o <<":">> \o U32ToDecimal(e.line) \o <<" ">> \o e.message

\* `impl error::ResponseError for Error {}` overrides nothing: status_code is
\* the trait's default, 500 Internal Server Error, and error_response the
\* trait's default, the Display text as text/plain with that status.
Error_status_code(e) == StatusInternalServerError

Error_error_response(e) ==
  HttpResponse(Error_status_code(e), ContentTypePlain, Error_Display(e))

(***************************************************************************)
(* The explored inputs.                                                    *)
(***************************************************************************)
SeqsUpTo(S, n) == UNION {[1..k -> S] : k \in 0..n}

\* Message templates: every text of "%" and "s" up to the bound (no, one or
\* several placeholders, and broken ones), and two with other characters.
Templates ==
  SeqsUpTo({"%", "s"}, MaxTemplateLen)
    \cup {<<"n", "o", " ", "%", "s">>, <<Quote, "%", "s", Quote, Backslash>>}

TipsTexts == SeqsUpTo({"%", "s", "u"}, MaxTipsLen)

\* 0, 1001, -1, 2^31 - 1, 2^31, 2^32 + 1001, -2^63.
Codes64 ==
  {I64Zero, <<0, 0, 0, 1001>>, <<65535, 65535, 65535, 65535>>, <<0, 0, 32767, 65535>>,
   <<0, 0, 32768, 0>>, <<0, 1, 0, 1001>>, <<32768, 0, 0, 0>>}

\* 0, 200, 404, -1, 2^31 - 1, -2^31.
Codes32 ==
  {0, 200, 404, 0 - 1, (HalfLimb - 1) * Limb + (Limb - 1), (0 - HalfLimb) * Limb}

Texts ==
  {<<>>, <<"o", "k">>, <<Quote, ",", Quote, "x", Quote, ":", "1">>,
   <<Backslash, Quote>>, <<"n", "u", "l", "l">>}

\* Option<String> payloads.
Payloads == {<<>>} \cup {<<t>> : t \in Texts}

Files == {<<"x", ".", "s", "r", "c">>, <<"l", "i", "b", ".", "r", "s">>}

\* 0, 42, 2^32 - 1.
Lines == {<<0, 0>>, <<0, 42>>, <<65535, 65535>>}

Messages == {<<"b", "o", "o", "m">>, <<>>, <<"a", " ", "b">>}

(***************************************************************************)
(* State: the value the caller holds, the calls that made it, the inputs   *)
(* of those calls, and the envelope, response or text they produced.       *)
(***************************************************************************)
NoEc == ErrorCode_new(I64Zero, <<>>)
NoErr == Error_new(<<>>, <<0, 0>>, <<>>)
NoResp == HttpResponse(0, "", <<>>)

Init ==
  /\ holds = "nothing"
  /\ calls = <<>>
  /\ payload = <<>>
  /\ ec = NoEc
  /\ tip = <<>>
  /\ err = NoErr
  /\ env = Response_default
  /\ resp = NoResp
  /\ ret = <<>>

\* success(data)
CallSuccess ==
  \E d \in Payloads :
    /\ holds = "nothing"
    /\ payload' = d
    /\ env' = success(d)
    /\ holds' = "Response"
    /\ calls' = <<"success">>
    /\ UNCHANGED <<ec, tip, err, resp, ret>>

\* error(data)
CallError ==
  \E d \in Payloads :
    /\ holds = "nothing"
    /\ payload' = d
    /\ env' = error(d)
    /\ holds' = "Response"
    /\ calls' = <<"error">>
    /\ UNCHANGED <<ec, tip, err, resp, ret>>

\* Response { code, data, msg } written out by the caller (the fields are pub).
CallResponseLiteral ==
  \E c \in Codes32, d \in Payloads, m \in Texts :
    /\ holds = "nothing"
    /\ payload' = d
    /\ env' = [code |-> c, data |-> d, msg |-> m]
    /\ holds' = "Response"
    /\ calls' = <<"Response">>
    /\ UNCHANGED <<ec, tip, err, resp, ret>>

\* <Response<T> as Responder>::respond_to
CallRespondTo ==
  /\ holds = "Response"
  /\ resp' = respond_to(env)
  /\ holds' = "HttpResponse"
  /\ calls' = Append(calls, "respond_to")
  /\ UNCHANGED <<payload, ec, tip, err, env, ret>>

\* <Response<T> as ResponseError>::error_response
CallResponseErrorResponse ==
  /\ holds = "Response"
  /\ resp' = Response_error_response(env)
  /\ holds' = "HttpResponse"
  /\ calls' = Append(calls, "Response::error_response")
  /\ UNCHANGED <<payload, ec, tip, err, env, ret>>

\* Response::body_json
CallBodyJson ==
  /\ holds = "Response"
  /\ ret' = body_json(env)
  /\ holds' = "String"
  /\ calls' = Append(calls, "body_json")
  /\ UNCHANGED <<payload, ec, tip, err, env, resp>>

\* success_respond_to(req, data)
CallSuccessRespondTo ==
  \E d \in Payloads :
    /\ holds = "nothing"
    /\ payload' = d
    /\ env' = success(d)
    /\ resp' = success_respond_to(d)
    /\ holds' = "HttpResponse"
    /\ calls' = <<"success_respond_to">>
    /\ UNCHANGED <<ec, tip, err, ret>>

\* error_respond_to(req, data)
CallErrorRespondTo ==
  \E d \in Payloads :
    /\ holds = "nothing"
    /\ payload' = d
    /\ env' = error(d)
    /\ resp' = error_respond_to(d)
    /\ holds' = "HttpResponse"
    /\ calls' = <<"error_respond_to">>
    /\ UNCHANGED <<ec, tip, err, ret>>

\* unauthorized(req)
CallUnauthorized ==
  /\ holds = "nothing"
  /\ env' = unauthorized_Response
  /\ resp' = unauthorized
  /\ holds' = "HttpResponse"
  /\ calls' = <<"unauthorized">>
  /\ UNCHANGED <<payload, ec, tip, err, ret>>

\* ErrorCode::new(code, message)
CallErrorCodeNew ==
  \E c \in Codes64, m \in Templates :
    /\ holds = "nothing"
    /\ ec' = ErrorCode_new(c, m)
    /\ holds' = "ErrorCode"
    /\ calls' = <<"ErrorCode::new">>
    /\ UNCHANGED <<payload, tip, err, env, resp, ret>>

\* throw(req, ec)
CallThrow ==
  /\ holds = "ErrorCode"
  /\ env' = throw_Response(ec)
  /\ resp' = throw(ec)
  /\ holds' = "HttpResponse"
  /\ calls' = Append(calls, "throw")
  /\ UNCHANGED <<payload, ec, tip, err, ret>>

\* throw_tips(req, ec, tips)
CallThrowTips ==
  \E t \in TipsTexts :
    /\ holds = "ErrorCode"
    /\ tip' = t
    /\ env' = throw_tips_Response(ec, t)
    /\ resp' = throw_tips(ec, t)
    /\ holds' = "HttpResponse"
    /\ calls' = Append(calls, "throw_tips")
    /\ UNCHANGED <<payload, ec, err, ret>>

\* ErrorCode::throw(&self, req)
CallErrorCodeThrow ==
  /\ holds = "ErrorCode"
  /\ env' = ErrorCode_throw_Response(ec)
  /\ resp' = ErrorCode_throw(ec)
  /\ holds' = "HttpResponse"
  /\ calls' = Append(calls, "ErrorCode::throw")
  /\ UNCHANGED <<payload, ec, tip, err, ret>>

\* ErrorCode::throw_tips(&self, req, tips)
CallErrorCodeThrowTips ==
  \E t \in TipsTexts :
    /\ holds = "ErrorCode"
    /\ tip' = t
    /\ env' = ErrorCode_throw_tips_Response(ec, t)
    /\ resp' = ErrorCode_throw_tips(ec, t)
    /\ holds' = "HttpResponse"
    /\ calls' = Append(calls, "ErrorCode::throw_tips")
    /\ UNCHANGED <<payload, ec, err, ret>>

\* ErrorCode::tips(&self, tips)
CallErrorCodeTips ==
  \E t \in TipsTexts :
    /\ holds = "ErrorCode"
    /\ tip' = t
    /\ ret' = ErrorCode_tips(ec, t)
    /\ holds' = "String"
    /\ calls' = Append(calls, "ErrorCode::tips")
    /\ UNCHANGED <<payload, ec, err, env, resp>>

\* ErrorCode::code_string(&self): Some(format!("{}", self.code))
CallErrorCodeCodeString ==
  /\ holds = "ErrorCode"
  /\ ret' = ErrorCode_code_string(ec)[1]
  /\ holds' = "String"
  /\ calls' = Append(calls, "ErrorCode::code_string")
  /\ UNCHANGED <<payload, ec, tip, err, env, resp>>

\* <ErrorCode as ResponseError>::error_response
CallErrorCodeErrorResponse ==
  /\ holds = "ErrorCode"
  /\ resp' = ErrorCode_error_response(ec)
  /\ holds' = "HttpResponse"
  /\ calls' = Append(calls, "ErrorCode::error_response")
  /\ UNCHANGED <<payload, ec, tip, err, env, ret>>

\* Error::new(file, line, message)
CallErrorNew ==
  \E f \in Files, l \in Lines, m \in Messages :
    /\ holds = "nothing"
    /\ err' = Error_new(f, l, m)
    /\ holds' = "Error"
    /\ calls' = <<"Error::new">>
    /\ UNCHANGED <<payload, ec, tip, env, resp, ret>>

\* <Error as ResponseError>::error_response
CallErrorErrorResponse ==
  /\ holds = "Error"
  /\ resp' = Error_error_response(err)
  /\ holds' = "HttpResponse"
  /\ calls' = Append(calls, "Error::error_response")
  /\ UNCHANGED <<payload, ec, tip, err, env, ret>>

\* The value is dropped (sent, returned or discarded); nothing outlives it.
Drop ==
  /\ holds # "nothing"
  /\ holds' = "nothing"
  /\ calls' = <<>>
  /\ payload' = <<>>
  /\ ec' = NoEc
  /\ tip' = <<>>
  /\ err' = NoErr
  /\ env' = Response_default
  /\ resp' = NoResp
  /\ ret' = <<>>

Next ==
  \/ CallSuccess
  \/ CallError
  \/ CallResponseLiteral
  \/ CallRespondTo
  \/ CallResponseErrorResponse
  \/ CallBodyJson
  \/ CallSuccessRespondTo
  \/ CallErrorRespondTo
  \/ CallUnauthorized
  \/ CallErrorCodeNew
  \/ CallThrow
  \/ CallThrowTips
  \/ CallErrorCodeThrow
  \/ CallErrorCodeThrowTips
  \/ CallErrorCodeTips
  \/ CallErrorCodeCodeString
  \/ CallErrorCodeErrorResponse
  \/ CallErrorNew
  \/ CallErrorErrorResponse
  \/ Drop

Spec == Init /\ [][Next]_vars

(***************************************************************************)
(* Reading a response body back: a reader of one flat JSON object, used    *)
(* only to state what a client sees in the bodies the program wrote.       *)
(***************************************************************************)
BadScan == [ok |-> FALSE, val |-> <<>>, next |-> 0]

\* The text of a JSON string whose opening quote precedes position j.
RECURSIVE ScanString(_, _, _)
ScanString(b, j, acc) ==
  IF j > Len(b) THEN BadScan
  ELSE IF b[j] = Quote THEN [ok |-> TRUE, val |-> acc, next |-> j + 1]
  ELSE IF b[j] = Backslash
    THEN (IF j + 1 > Len(b) THEN BadScan ELSE ScanString(b, j + 2, Append(acc, b[j + 1])))
  ELSE ScanString(b, j + 1, Append(acc, b[j]))

\* A number or null: the characters up to the next "," or "}".
RECURSIVE ScanLiteral(_, _, _)
ScanLiteral(b, j, acc) ==
  IF j > Len(b) THEN BadScan
  ELSE IF b[j] \in {",", "}"} THEN [ok |-> acc # <<>>, val |-> acc, next |-> j]
  ELSE IF b[j] \in {Quote, Backslash, ":", "{"} THEN BadScan
  ELSE ScanLiteral(b, j + 1, Append(acc, b[j]))

BadObject == [ok |-> FALSE, members |-> <<>>]

RECURSIVE ReadMembers(_, _, _)
ReadMembers(b, i, acc) ==
  LET k == IF i <= Len(b) /\ b[i] = Quote THEN ScanString(b, i + 1, <<>>) ELSE BadScan
      isStr == k.next + 1 <= Len(b) /\ b[k.next + 1] = Quote
      v == IF isStr THEN ScanString(b, k.next + 2, <<>>) ELSE ScanLiteral(b, k.next + 1, <<>>)
      got == Append(acc, [key |-> k.val, kind |-> IF isStr THEN "string" ELSE "literal",
                          val |-> v.val])
  IN  IF ~k.ok \/ k.next > Len(b) THEN BadObject
      ELSE IF b[k.next] # ":" THEN BadObject
      ELSE IF ~v.ok \/ v.next > Len(b) THEN BadObject
      ELSE IF b[v.next] = "," THEN ReadMembers(b, v.next + 1, got)
      ELSE IF b[v.next] = "}" /\ v.next = Len(b) THEN [ok |-> TRUE, members |-> got]
      ELSE BadObject

ReadObject(b) ==
  IF Len(b) < 2 THEN BadObject
  ELSE IF b[1] # "{" THEN BadObject
  ELSE IF b = <<"{", "}">> THEN [ok |-> TRUE, members |-> <<>>]
  ELSE ReadMembers(b, 2, <<>>)

Keys(o) == [i \in 1..Len(o.members) |-> o.members[i].key]

KeyCode == <<"c", "o", "d", "e">>
KeyData == <<"d", "a", "t", "a">>
KeyMsg == <<"m", "s", "g">>

\* The members a client reads for an envelope of the given data and msg and
\* the decimal text of its code.
Member(key, kind, val) == [key |-> key, kind |-> kind, val |-> val]

ExpectedMembers(codeText, d, m) ==
  << Member(KeyCode, "literal", codeText),
     IF d = <<>> THEN Member(KeyData, "literal", JsonNull)
                 ELSE Member(KeyData, "string", d[1]),
     Member(KeyMsg, "string", m) >>

LastCall == IF calls = <<>> THEN "" ELSE calls[Len(calls)]

\* The response in hand was made from an envelope by respond_to.
ByRespondTo ==
  /\ holds = "HttpResponse"
  /\ LastCall \in {"respond_to", "success_respond_to", "error_respond_to", "unauthorized",
                   "throw", "throw_tips", "ErrorCode::throw", "ErrorCode::throw_tips"}

\* The response in hand was made from an envelope by its error_response.
ByResponseErrorResponse ==
  /\ holds = "HttpResponse"
  /\ LastCall = "Response::error_response"

Thrown == ByRespondTo /\ LastCall \in {"throw", "ErrorCode::throw"}

ThrownTips == ByRespondTo /\ LastCall \in {"throw_tips", "ErrorCode::throw_tips"}

(***************************************************************************)
(* Properties.                                                             *)
(***************************************************************************)

\* C1: whatever the code field of an envelope, both of its conversions
\* (respond_to and error_response) give status 200 and Content-Type
\* application/json.
C1_EnvelopeStatusOk ==
  (ByRespondTo \/ ByResponseErrorResponse) =>
    /\ resp.status = 200
    /\ resp.ctype = "application/json"

C1_Witness ==
  /\ ByResponseErrorResponse
  /\ env.code = 404
  /\ resp.status = 200
  /\ resp.ctype = "application/json"

ByErrorErrorResponse == calls = <<"Error::new", "Error::error_response">>

\* C2 as stated: the carrier's response has the body "<file>:<line> <message>",
\* status 400 and Content-Type text/html.
C2_Original ==
  ByErrorErrorResponse =>
    /\ resp.body = err.file \o <<":">> \o U32ToDecimal(err.line) \o <<" ">> \o err.message
    /\ resp.status = 400
    /\ resp.ctype \in {"text/html", "text/html; charset=utf-8"}

\* C2 amended: the carrier's response has the body "<file>:<line> <message>",
\* status 500 and Content-Type text/plain; charset=utf-8.
C2_CarrierResponse ==
  ByErrorErrorResponse =>
    /\ resp.body = err.file \o <<":">> \o U32ToDecimal(err.line) \o <<" ">> \o err.message
    /\ (err = Error_new(<<"x", ".", "s", "r", "c">>, <<0, 42>>, <<"b", "o", "o", "m">>)
          => resp.body = <<"x", ".", "s", "r", "c", ":", "4", "2", " ", "b", "o", "o", "m">>)
    /\ resp.status = 500
    /\ resp.ctype = "text/plain; charset=utf-8"

C2_Witness ==
  /\ ByErrorErrorResponse
  /\ err = Error_new(<<"x", ".", "s", "r", "c">>, <<0, 42>>, <<"b", "o", "o", "m">>)
  /\ resp.body = <<"x", ".", "s", "r", "c", ":", "4", "2", " ", "b", "o", "o", "m">>
  /\ resp.status = 500

\* C3 as stated: the carrier is the only producer whose conversion gives a
\* status other than 200; every conversion of an ErrorCode (throw, throw_tips
\* and its error_response) gives 200.
C3_Original ==
  holds = "HttpResponse" =>
    (resp.status # 200 <=> calls[1] = "Error::new")

\* C3 amended: throw and throw_tips (functions and methods) and every envelope
\* conversion give status 200; the conversions that give another status are
\* the error_response of the carrier and the error_response of an ErrorCode,
\* which gives 400.
C3_NonSuccessProducers ==
  holds = "HttpResponse" =>
    /\ (Thrown \/ ThrownTips) => resp.status = 200
    /\ resp.status # 200
         <=> LastCall \in {"Error::error_response", "ErrorCode::error_response"}
    /\ LastCall = "ErrorCode::error_response" => resp.status = 400

C3_Witness ==
  /\ holds = "HttpResponse"
  /\ LastCall = "ErrorCode::error_response"
  /\ ec.message = <<"n", "o", " ", "%", "s">>
  /\ resp.status = 400

SerializedBody == IF holds = "String" THEN ret ELSE resp.body

\* C4: the serialized body of every envelope has exactly the keys code, data,
\* msg, in that order; with data absent the data key is there with value null.
C4_ThreeKeysInOrder ==
  (ByRespondTo \/ ByResponseErrorResponse \/ (holds = "String" /\ LastCall = "body_json")) =>
    LET o == ReadObject(SerializedBody)
    IN  /\ o.ok
        /\ Keys(o) = <<KeyCode, KeyData, KeyMsg>>
        /\ env.data = <<>> => o.members[2] = Member(KeyData, "literal", JsonNull)

C4_Witness ==
  /\ ByRespondTo
  /\ env.data = <<>>
  /\ env.msg = <<Quote, ",", Quote, "x", Quote, ":", "1">>
  /\ Keys(ReadObject(resp.body)) = <<KeyCode, KeyData, KeyMsg>>
  /\ ReadObject(resp.body).members[2].val = JsonNull

\* The template with every "%s" replaced, read off character by character.
RECURSIVE EveryPlaceholderReplaced(_, _)
EveryPlaceholderReplaced(t, r) ==
  IF t = <<>> THEN <<>>
  ELSE IF Len(t) >= 2 /\ t[1] = "%" /\ t[2] = "s"
    THEN r \o EveryPlaceholderReplaced(SubSeq(t, 3, Len(t)), r)
  ELSE <<t[1]>> \o EveryPlaceholderReplaced(Tail(t), r)

HasPlaceholder(t) == \E i \in 1..(Len(t) - 1) : t[i] = "%" /\ t[i + 1] = "s"

\* C5: tips(r) is the template with every occurrence of "%s" replaced by r,
\* and the template itself when it has no "%s".
C5_TipsReplacesAll ==
  (holds = "String" /\ LastCall = "ErrorCode::tips") =>
    /\ ret = EveryPlaceholderReplaced(ec.message, tip)
    /\ ~HasPlaceholder(ec.message) => ret = ec.message

C5_Witness ==
  /\ holds = "String"
  /\ LastCall = "ErrorCode::tips"
  /\ ec.message = <<"%", "s", "%", "s">>
  /\ tip = <<"u">>
  /\ ret = <<"u", "u">>

\* C6: throw (function and method) builds an envelope with data absent and msg
\* the raw template, "%s" left as it is, and answers with status 200.
C6_ThrowRawTemplate ==
  Thrown =>
    /\ env.data = <<>>
    /\ env.msg = ErrorCode_message(ec)
    /\ resp.status = 200
    /\ ReadObject(resp.body).ok
    /\ ReadObject(resp.body).members[2] = Member(KeyData, "literal", JsonNull)
    /\ ReadObject(resp.body).members[3] = Member(KeyMsg, "string", ec.message)

C6_Witness ==
  /\ Thrown
  /\ LastCall = "ErrorCode::throw"
  /\ ec.message = <<"n", "o", " ", "%", "s">>
  /\ ReadObject(resp.body).members[3].val = <<"n", "o", " ", "%", "s">>
  /\ resp.status = 200

\* C7: throw_tips (function and method) answers as throw does, with the same
\* status, content type, code and null data, except that msg is tips(r).
C7_ThrowTipsIsThrowWithTips ==
  ThrownTips =>
    LET base == IF LastCall = "throw_tips" THEN throw(ec) ELSE ErrorCode_throw(ec)
        o == ReadObject(resp.body)
        ob == ReadObject(base.body)
    IN  /\ resp.status = base.status
        /\ resp.ctype = base.ctype
        /\ o.ok /\ ob.ok
        /\ Len(o.members) = 3 /\ Len(ob.members) = 3
        /\ o.members[1] = ob.members[1]
        /\ o.members[2] = ob.members[2]
        /\ o.members[3] = Member(KeyMsg, "string", ErrorCode_tips(ec, tip))
        /\ env.msg = ErrorCode_tips(ec, tip)

C7_Witness ==
  /\ ThrownTips
  /\ LastCall = "throw_tips"
  /\ ec.message = <<"n", "o", " ", "%", "s">>
  /\ tip = <<"u">>
  /\ ReadObject(resp.body).members[3].val = <<"n", "o", " ", "u">>

\* C8: success(v) is the envelope with code 200, data v and the success text;
\* success_respond_to(v) converts that envelope, with status 200.
C8_Success ==
  (calls # <<>> /\ calls[1] \in {"success", "success_respond_to"}) =>
    /\ env = [code |-> 200, data |-> payload, msg |-> SuccessMsg]
    /\ calls[1] = "success_respond_to" =>
         /\ resp.status = 200
         /\ ReadObject(resp.body) =
              [ok |-> TRUE,
               members |-> ExpectedMembers(<<"2", "0", "0">>, payload, SuccessMsg)]

C8_Witness ==
  /\ calls = <<"success_respond_to">>
  /\ payload = << <<Backslash, Quote>> >>
  /\ env.code = 200
  /\ resp.status = 200

\* C9: error(v) is the envelope with code 0, data v and the failure text, and
\* its response has status 200.
C9_Error ==
  (calls # <<>> /\ calls[1] \in {"error", "error_respond_to"}) =>
    /\ env = [code |-> 0, data |-> payload, msg |-> FailureMsg]
    /\ holds = "HttpResponse" =>
         /\ resp.status = 200
         /\ ReadObject(resp.body) =
              [ok |-> TRUE, members |-> ExpectedMembers(<<"0">>, payload, FailureMsg)]

C9_Witness ==
  /\ calls = <<"error_respond_to">>
  /\ payload = << <<"o", "k">> >>
  /\ env.code = 0
  /\ resp.status = 200

\* C10: the code of the envelope built by throw and throw_tips is numerically
\* the i64 returned by code(), for every i64.
C10_CodeKept ==
  (Thrown \/ ThrownTips) => I32ToI64(env.code) = ErrorCode_code(ec)

====
